---- MODULE Spec2Model ----
(***************************************************************************)
(* ShortChannelDeleter of dflowfm2threedi/postprocessing.py as a state     *)
(* machine: the geopackage (data_source), the per-layer reverse index,    *)
(* the cached referrer lists, the replacement chain, and the phases of    *)
(* run().                                                                  *)
(*                                                                         *)
(* An ogr feature handle is an in-memory snapshot: its identity is        *)
(* (layer, fid), its fields are those read when it was loaded.  The        *)
(* handles of self.short_channels and those held in self.indices are all  *)
(* loaded in __init__, so one snapshot per feature (handles) serves both. *)
(***************************************************************************)
EXTENDS Integers, Sequences, FiniteSets, TLC

\* ------------------------------------------------------------------ bounds
MaxNode == 3
MaxChannel == 3
Spacing == 1

\* threshold passed to ShortChannelDeleter in __main__
Threshold == 5

\* ------------------------------------------------------- module constants
NETWORK_OBJECTS == <<"channel", "culvert", "orifice", "pipe", "pump_map", "weir">>

MAPPING_OBJECTS == <<"surface_map">>

POINT_OBJECTS == <<"boundary_condition_1d", "lateral_1d", "pump">>

ALL_OBJECTS == NETWORK_OBJECTS \o MAPPING_OBJECTS \o POINT_OBJECTS

possible_connection_node_field_names ==
    {"connection_node_id", "connection_node_id_start", "connection_node_id_end"}

\* The node-reference fields on each layer's schema.  pump_map carries only
\* pump_id and connection_node_id_end (the two fields
\* update_pump_map_geometries reads); the mapping and point layers carry the
\* single connection_node_id; the other network layers carry start and end.
layer_field_names(layer_name) ==
    IF layer_name = "pump_map" THEN {"pump_id", "connection_node_id_end"}
    ELSE IF layer_name \in {"surface_map", "boundary_condition_1d", "lateral_1d", "pump"}
         THEN {"connection_node_id"}
    ELSE {"connection_node_id_start", "connection_node_id_end"}

\* ---------------------------------------------------------------- helpers
Range(s) == {s[i] : i \in DOMAIN s}

Put(f, k, v) == [x \in DOMAIN f \cup {k} |-> IF x = k THEN v ELSE f[x]]

Drop(f, K) == [x \in DOMAIN f \ K |-> f[x]]

Merge(f, g) == [x \in DOMAIN f \cup DOMAIN g |-> IF x \in DOMAIN f THEN f[x] ELSE g[x]]

EmptyDict == [x \in {} |-> 0]

Abs(a) == IF a < 0 THEN -a ELSE a

Min(S) == CHOOSE m \in S : \A o \in S : m <= o

RECURSIVE SortedSeq(_)
SortedSeq(S) == IF S = {} THEN <<>> ELSE <<Min(S)>> \o SortedSeq(S \ {Min(S)})

\* All orders in which a Python set can be iterated.
RECURSIVE Perms(_)
Perms(S) ==
    IF S = {} THEN {<<>>}
    ELSE UNION {{<<x>> \o p : p \in Perms(S \ {x})} : x \in S}

\* --------------------------------------------------------------- geometry
\* A geometry is a sequence of points, a point <<x, y>> or <<x, y, z>>.
\* Every modelled coordinate lies on the line y = 0, so the length of a
\* polyline is the sum of the |dx| of its segments.
RECURSIVE Length(_)
Length(geom) ==
    IF Len(geom) < 2 THEN 0
    ELSE Abs(geom[2][1] - geom[1][1]) + Length(Tail(geom))

GetCoordinateDimension(geom) == Len(geom[1])

move_vertex_in_geometry(target_geom, new_vertex, first_or_last) ==
    LET new_x == new_vertex[1][1]
        new_y == new_vertex[1][2]
        num_vertices == Len(target_geom)
        index == IF first_or_last = "first" THEN 1 ELSE num_vertices
    IN  IF GetCoordinateDimension(target_geom) = 3
        THEN LET new_z == IF GetCoordinateDimension(new_vertex) = 3
                          THEN new_vertex[1][3] ELSE 0
             IN  [target_geom EXCEPT ![index] = <<new_x, new_y, new_z>>]
        ELSE [target_geom EXCEPT ![index] = <<new_x, new_y>>]

\* ------------------------------------------------------------ input stores
NodeIds == 1..MaxNode

ChannelFids == 1..MaxChannel

NodePoint(n) == <<Spacing * (n - 1), 0>>

\* a straight line between two nodes; with the nodes this close together it
\* is shorter than Threshold
StraightLine(s, e) == <<NodePoint(s), NodePoint(e)>>

\* a line between two nodes by way of a far vertex: longer than Threshold
\* wherever its endpoints are moved
DetourLine(s, e) == <<NodePoint(s), <<Threshold + Spacing * MaxNode, 0>>, NodePoint(e)>>

LineFeature(s, e, geom) ==
    [ref |-> [connection_node_id_start |-> s, connection_node_id_end |-> e],
     geom |-> geom]

PointFeature(n) ==
    [ref |-> [connection_node_id |-> n], geom |-> <<NodePoint(n)>>]

\* a point feature whose geometry has a third coordinate
PointFeatureZ(n) ==
    [ref |-> [connection_node_id |-> n], geom |-> <<NodePoint(n) \o <<1>>>>]

\* a surface_map line is drawn from a surface (here at x = 1) and carries the
\* single-role field
SurfaceMapFeature(n) ==
    [ref |-> [connection_node_id |-> n], geom |-> <<<<1, 0>>, NodePoint(n)>>]

PumpMapFeature(p, pn, n) ==
    [ref |-> [connection_node_id_end |-> n], pump_id |-> p,
     geom |-> StraightLine(pn, n)]

Single(k, v) == [x \in {k} |-> v]

Culvert(fid, s, e) == Single(<<"culvert", fid>>, LineFeature(s, e, StraightLine(s, e)))

\* the features besides the channels: nothing, one culvert, one pump (its
\* point with or without a third coordinate), one pump with its pump_map, or
\* one surface_map
OtherFeatures ==
    {EmptyDict}
    \cup {Culvert(1, s, e) : s \in NodeIds, e \in NodeIds}
    \cup {Single(<<"pump", 1>>, PointFeature(n)) : n \in NodeIds}
    \cup {Single(<<"pump", 1>>, PointFeatureZ(n)) : n \in NodeIds}
    \cup {Merge(Single(<<"pump", 1>>, PointFeature(pn)),
                Single(<<"pump_map", 1>>, PumpMapFeature(1, pn, n))) :
            pn \in NodeIds, n \in NodeIds}
    \cup {Single(<<"surface_map", 1>>, SurfaceMapFeature(n)) : n \in NodeIds}

\* the node a channel list names in its i-th endpoint slot
Slot(ends, i) == ends[(i + 1) \div 2][2 - (i % 2)]

\* node ids are numbered in the order the channels first use them
NumberedInOrder(ends) ==
    \A i \in 1..(2 * MaxChannel) :
        \/ Slot(ends, i) = 1
        \/ \E j \in 1..(i - 1) : Slot(ends, j) >= Slot(ends, i) - 1

\* which channels are long: none, or one of them
LongChannels == {{}} \cup {{c} : c \in ChannelFids}

Store(nodes, channels, other) ==
    [connection_node |-> [n \in nodes |-> <<NodePoint(n)>>],
     feature |-> Merge([k \in {"channel"} \X DOMAIN channels |-> channels[k[2]]], other),
     cross_section_location |-> {[fid |-> c, channel_id |-> c] : c \in DOMAIN channels}]

\* every network of MaxChannel channels over MaxNode nodes (zero-length and
\* parallel channels included), with one of OtherFeatures
GeneralStores ==
    {Store(NodeIds,
           [c \in ChannelFids |->
               LineFeature(ends[c][1], ends[c][2],
                           IF c \in long THEN DetourLine(ends[c][1], ends[c][2])
                           ELSE StraightLine(ends[c][1], ends[c][2]))],
           other) :
        ends \in {e \in [ChannelFids -> NodeIds \X NodeIds] : NumberedInOrder(e)},
        long \in LongChannels,
        other \in OtherFeatures}

\* the complete network on four nodes: six channels, channel 2 long
CompleteStore ==
    LET ends == <<<<1, 4>>, <<2, 4>>, <<1, 2>>, <<2, 3>>, <<3, 1>>, <<4, 3>>>>
    IN  Store(1..4,
              [c \in DOMAIN ends |->
                  LineFeature(ends[c][1], ends[c][2],
                              IF c = 2 THEN DetourLine(ends[c][1], ends[c][2])
                              ELSE StraightLine(ends[c][1], ends[c][2]))],
              EmptyDict)

InputStores == GeneralStores \cup {CompleteStore}

\* ----------------------------------------------------- ShortChannelDeleter
Fids(ds, layer_name) == {k[2] : k \in {x \in DOMAIN ds.feature : x[1] = layer_name}}

\* a faulty variant: every channel is a merge candidate, whatever its length
_get_short_channels_ignoring_threshold(ds, threshold) ==
    SortedSeq(Fids(ds, "channel"))

_get_short_channels(ds, threshold) ==
    SortedSeq({c \in Fids(ds, "channel") :
                 Length(ds.feature[<<"channel", c>>].geom) < threshold})

_create_index(ds, layer_name) ==
    LET connection_node_fields ==
            possible_connection_node_field_names \cap layer_field_names(layer_name)
        entries == {<<ds.feature[<<layer_name, fid>>].ref[fld], fld, fid>> :
                      fld \in connection_node_fields, fid \in Fids(ds, layer_name)}
    IN  [n \in {e[1] : e \in entries} |->
           {<<e[2], e[3]>> : e \in {x \in entries : x[1] = n}}]

\* the set of (layer_name, field_name, feature) tuples; the list the code
\* builds has no duplicates, so its length is the set's cardinality
get_referencing_features(self, channel_id, connection_node_id, target_object_types) ==
    {t \in UNION {{<<layer_name, e[1], e[2]>> :
                     e \in IF connection_node_id \in DOMAIN self.indices[layer_name]
                           THEN self.indices[layer_name][connection_node_id]
                           ELSE {}} :
                  layer_name \in Range(target_object_types)} :
        ~(t[1] = "channel" /\ t[3] = channel_id)}

\* channels: the fids of the handles passed in; the endpoints are read from
\* the handle, not from the store
_update_reference_dict(self, channels) ==
    LET entry(c) ==
            [start |-> get_referencing_features(
                           self, c, self.handles[<<"channel", c>>].connection_node_id_start,
                           NETWORK_OBJECTS),
             end   |-> get_referencing_features(
                           self, c, self.handles[<<"channel", c>>].connection_node_id_end,
                           NETWORK_OBJECTS)]
    IN  [self EXCEPT !.reference_dict =
            [c \in DOMAIN self.reference_dict \cup channels |->
                IF c \in channels THEN entry(c) ELSE self.reference_dict[c]]]

__init__(gpkg, threshold) ==
    LET short == _get_short_channels(gpkg, threshold)
        base == [data_source |-> gpkg,
                 short_channels |-> short,
                 handles |-> [k \in DOMAIN gpkg.feature |-> gpkg.feature[k].ref],
                 indices |-> [layer_name \in Range(ALL_OBJECTS) |->
                                _create_index(gpkg, layer_name)],
                 reference_dict |-> EmptyDict,
                 replaced_connection_nodes |-> EmptyDict,
                 err |-> "none"]
    IN  [_update_reference_dict(base, Range(short))
            EXCEPT !.replaced_connection_nodes = EmptyDict]

\* self.replaced_connection_node_id: the while loop walks the chain; on a
\* chain with a cycle it never returns (terminates = FALSE)
RECURSIVE walk_chain(_, _, _)
walk_chain(chain, current_id, seen) ==
    IF current_id \notin DOMAIN chain THEN [terminates |-> TRUE, id |-> current_id]
    ELSE IF current_id \in seen THEN [terminates |-> FALSE, id |-> current_id]
    ELSE walk_chain(chain, chain[current_id], seen \cup {current_id})

replaced_connection_node_id(self, old_connection_node_id) ==
    walk_chain(self.replaced_connection_nodes, old_connection_node_id, {})

Raise(self, exception) == [self EXCEPT !.err = exception]

\* a faulty variant: when no field holds delete_id, the last node-reference
\* field of the layer is updated all the same
field_to_be_updated_guessing(layer_name, feature, delete_id) ==
    LET field_names == layer_field_names(layer_name)
    IN  IF "connection_node_id" \in field_names
        THEN <<"connection_node_id", "first">>
        ELSE IF "connection_node_id_start" \notin field_names THEN <<"KeyError">>
        ELSE IF feature.ref["connection_node_id_start"] = delete_id
             THEN <<"connection_node_id_start", "first">>
        ELSE IF "connection_node_id_end" \notin field_names THEN <<"KeyError">>
        ELSE <<"connection_node_id_end", "last">>

\* which field replace_connection_node updates, or the exception it raises;
\* reading a field the layer does not have raises KeyError
field_to_be_updated(layer_name, feature, delete_id) ==
    LET field_names == layer_field_names(layer_name)
    IN  IF "connection_node_id" \in field_names
        THEN IF feature.ref["connection_node_id"] = delete_id
             THEN <<"connection_node_id", "first">>
             ELSE <<"RuntimeError">>
        ELSE IF "connection_node_id_start" \notin field_names THEN <<"KeyError">>
        ELSE IF feature.ref["connection_node_id_start"] = delete_id
             THEN <<"connection_node_id_start", "first">>
        ELSE IF "connection_node_id_end" \notin field_names THEN <<"KeyError">>
        ELSE IF feature.ref["connection_node_id_end"] = delete_id
             THEN <<"connection_node_id_end", "last">>
        ELSE <<"RuntimeError">>

\* a faulty variant: a bucket that loses its last entry is kept, empty
update_index_keeping_empty_bucket(index, field_name, delete_id, replacement_id) ==
    IF delete_id \in DOMAIN index
    THEN LET old_index_entry == index[delete_id]
             moved == {e \in old_index_entry : e[1] = field_name}
             added == IF moved = {} THEN index
                      ELSE Put(index, replacement_id,
                               (IF replacement_id \in DOMAIN index
                                THEN index[replacement_id] ELSE {}) \cup moved)
         IN  Put(added, delete_id, old_index_entry \ moved)
    ELSE index

\* the index update at the end of replace_connection_node: every entry of
\* delete_id's bucket with the updated field name goes to replacement_id's
\* bucket, then delete_id's bucket is overwritten by the rest or popped
update_index(index, field_name, delete_id, replacement_id) ==
    IF delete_id \in DOMAIN index
    THEN LET old_index_entry == index[delete_id]
             moved == {e \in old_index_entry : e[1] = field_name}
             new_index_entry == old_index_entry \ moved
             added == IF moved = {} THEN index
                      ELSE Put(index, replacement_id,
                               (IF replacement_id \in DOMAIN index
                                THEN index[replacement_id] ELSE {}) \cup moved)
         IN  IF new_index_entry # {} THEN Put(added, delete_id, new_index_entry)
             ELSE Drop(added, {delete_id})
    ELSE index

replace_connection_node(self, layer_name, feature_fid, delete_id, replacement_id) ==
    LET ds == self.data_source
        key == <<layer_name, feature_fid>>
    IN  IF key \notin DOMAIN ds.feature
        THEN IF layer_name = "channel" THEN self  \* channel has already been deleted
             ELSE Raise(self, "TypeError")
        ELSE
        LET feature == ds.feature[key]
            fld == field_to_be_updated(layer_name, feature, delete_id)
        IN  IF Len(fld) = 1 THEN Raise(self, fld[1])
            ELSE IF replacement_id \notin DOMAIN ds.connection_node
            THEN Raise(self, "AttributeError")
            ELSE
            LET vertex_geom == ds.connection_node[replacement_id]
                saved == [feature EXCEPT
                            !.ref = [@ EXCEPT ![fld[1]] = replacement_id],
                            !.geom = move_vertex_in_geometry(@, vertex_geom, fld[2])]
            IN  [self EXCEPT
                    !.data_source.feature = [@ EXCEPT ![key] = saved],
                    !.indices = [@ EXCEPT ![layer_name] =
                                    update_index(@, fld[1], delete_id, replacement_id)]]

\* the guard of delete_channel: features are compared as handles, one handle
\* per (layer, fid)
guard_declines(self, channel_id) ==
    LET references == self.reference_dict[channel_id]
        start_referencing_features == {<<t[1], t[3]>> : t \in references.start}
        end_referencing_features == {<<t[1], t[3]>> : t \in references.end}
    IN  start_referencing_features \cap end_referencing_features # {}

\* the endpoints are read from the handle in self.short_channels
connection_node_id_to_delete(self, channel_id) ==
    LET references == self.reference_dict[channel_id]
        channel == self.handles[<<"channel", channel_id>>]
    IN  IF Cardinality(references.start) > Cardinality(references.end)
        THEN channel.connection_node_id_end
        ELSE channel.connection_node_id_start

\* a faulty variant: the kept endpoint is used as the handle records it, the
\* replacement chain is not walked
connection_node_id_replacement_unresolved(self, channel_id) ==
    LET references == self.reference_dict[channel_id]
        channel == self.handles[<<"channel", channel_id>>]
    IN  [terminates |-> TRUE,
         id |-> IF Cardinality(references.start) > Cardinality(references.end)
                THEN channel.connection_node_id_start
                ELSE channel.connection_node_id_end]

connection_node_id_replacement(self, channel_id) ==
    LET references == self.reference_dict[channel_id]
        channel == self.handles[<<"channel", channel_id>>]
    IN  replaced_connection_node_id(self,
            IF Cardinality(references.start) > Cardinality(references.end)
            THEN channel.connection_node_id_start
            ELSE channel.connection_node_id_end)

\* the orders in which get_referencing_features can list a set of referrers:
\* layer by layer in the order of self.indices, each bucket in any order
RECURSIVE list_orders(_, _)
list_orders(referrers, i) ==
    IF i > Len(ALL_OBJECTS) THEN {<<>>}
    ELSE {p \o q : p \in Perms({t \in referrers : t[1] = ALL_OBJECTS[i]}),
                   q \in list_orders(referrers, i + 1)}

\* the loop "Update all referencing features" of delete_channel
RECURSIVE update_referencing_features(_, _, _, _)
update_referencing_features(self, referencing_features, delete_id, replacement_id) ==
    IF referencing_features = <<>> \/ self.err # "none" THEN self
    ELSE LET t == Head(referencing_features)
             replaced == replace_connection_node(self, t[1], t[3], delete_id, replacement_id)
             refreshed == IF replaced.err = "none" /\ t[1] = "channel"
                          THEN _update_reference_dict(replaced, {t[3]})
                          ELSE replaced
         IN  update_referencing_features(refreshed, Tail(referencing_features),
                                         delete_id, replacement_id)

\* a faulty variant: the cross-section locations of the channel are kept
delete_merged_keeping_cross_sections(self, channel_id, delete_id, replacement_id) ==
    LET ds == self.data_source
        recorded ==
            [self EXCEPT
                !.data_source.connection_node = Drop(@, {delete_id}),
                !.replaced_connection_nodes = Put(@, delete_id, replacement_id)]
    IN  IF <<"channel", channel_id>> \notin DOMAIN ds.feature
        THEN Raise(recorded, "RuntimeError")
        ELSE [recorded EXCEPT
                !.data_source.feature = Drop(@, {<<"channel", channel_id>>}),
                !.reference_dict = Drop(@, {channel_id})]

\* delete_channel from "Delete all cross-section locations" to its end
delete_merged(self, channel_id, delete_id, replacement_id) ==
    LET ds == self.data_source
        recorded ==
            [self EXCEPT
                !.data_source.cross_section_location =
                    {x \in @ : x.channel_id # channel_id},
                !.data_source.connection_node = Drop(@, {delete_id}),
                !.replaced_connection_nodes = Put(@, delete_id, replacement_id)]
    IN  IF <<"channel", channel_id>> \notin DOMAIN ds.feature
        THEN Raise(recorded, "RuntimeError")
        ELSE [recorded EXCEPT
                !.data_source.feature = Drop(@, {<<"channel", channel_id>>}),
                !.reference_dict = Drop(@, {channel_id})]

\* a faulty variant: a channel the guard declines is dropped from
\* self.reference_dict
delete_channel_forgetting_skipped(self, channel_id, referencing_features) ==
    IF channel_id \notin DOMAIN self.reference_dict THEN Raise(self, "RuntimeError")
    ELSE IF guard_declines(self, channel_id)
    THEN [self EXCEPT !.reference_dict = Drop(@, {channel_id})]
    ELSE LET delete_id == connection_node_id_to_delete(self, channel_id)
             replacement == connection_node_id_replacement(self, channel_id)
         IN  IF ~replacement.terminates THEN Raise(self, "hang")
             ELSE LET updated == update_referencing_features(
                                     self, referencing_features, delete_id, replacement.id)
                  IN  IF updated.err # "none" THEN updated
                      ELSE delete_merged(updated, channel_id, delete_id, replacement.id)

\* referencing_features: the list get_referencing_features returned for the
\* node to delete, in the order the sets were iterated
delete_channel(self, channel_id, referencing_features) ==
    IF channel_id \notin DOMAIN self.reference_dict THEN Raise(self, "RuntimeError")
    ELSE IF guard_declines(self, channel_id) THEN self
    ELSE LET delete_id == connection_node_id_to_delete(self, channel_id)
             replacement == connection_node_id_replacement(self, channel_id)
         IN  IF ~replacement.terminates THEN Raise(self, "hang")
             ELSE LET updated == update_referencing_features(
                                     self, referencing_features, delete_id, replacement.id)
                  IN  IF updated.err # "none" THEN updated
                      ELSE delete_merged(updated, channel_id, delete_id, replacement.id)

\* the lists get_referencing_features can return at line 132
referencing_feature_lists(self, channel_id) ==
    IF channel_id \notin DOMAIN self.reference_dict \/ guard_declines(self, channel_id)
    THEN {<<>>}
    ELSE list_orders(get_referencing_features(
                         self, channel_id, connection_node_id_to_delete(self, channel_id),
                         ALL_OBJECTS), 1)

\* channel_ids: None (the empty sequence) or a list of <<type, value>> items
\* the attribute filter "id in (...)" built by ','.join(channel_ids)
filtered_channels(ds, channel_ids) ==
    IF channel_ids = <<>> THEN Fids(ds, "channel")
    ELSE {c \in Fids(ds, "channel") : \E i \in DOMAIN channel_ids : channel_ids[i][2] = c}

\* a faulty variant: the channel and its cross-section locations are deleted,
\* the channel index is left as it was
delete_zero_length_channel_keeping_index(self, fid) ==
    [self EXCEPT
        !.data_source.cross_section_location = {x \in @ : x.channel_id # fid},
        !.data_source.feature = Drop(@, {<<"channel", fid>>})]

\* one zero-length channel of delete_zero_length_channels
delete_zero_length_channel(self, fid) ==
    LET ds == self.data_source
        channel == ds.feature[<<"channel", fid>>]
        connection_node_id == channel.ref.connection_node_id_start
        index == self.indices["channel"]
        deleted == [self EXCEPT
                       !.data_source.cross_section_location =
                           {x \in @ : x.channel_id # fid},
                       !.data_source.feature = Drop(@, {<<"channel", fid>>})]
    IN  IF connection_node_id \notin DOMAIN index THEN Raise(deleted, "KeyError")
        ELSE LET new_index_entry == {e \in index[connection_node_id] : e[2] # fid}
             IN  [deleted EXCEPT !.indices["channel"] =
                     IF new_index_entry # {}
                     THEN Put(index, connection_node_id, new_index_entry)
                     ELSE Drop(index, {connection_node_id})]

RECURSIVE delete_zero_length_loop(_, _)
delete_zero_length_loop(self, channels) ==
    IF channels = <<>> \/ self.err # "none" THEN self
    ELSE LET fid == Head(channels)
             channel == self.data_source.feature[<<"channel", fid>>]
         IN  delete_zero_length_loop(
                 IF channel.ref.connection_node_id_start = channel.ref.connection_node_id_end
                 THEN delete_zero_length_channel(self, fid)
                 ELSE self,
                 Tail(channels))

delete_zero_length_channels(self, channel_ids) ==
    IF \E i \in DOMAIN channel_ids : channel_ids[i][1] # "str"
    THEN Raise(self, "TypeError")  \* ','.join of a non-string item
    ELSE LET looped == delete_zero_length_loop(
                           self, SortedSeq(filtered_channels(self.data_source, channel_ids)))
             deleted_fids == Fids(self.data_source, "channel")
                                 \ Fids(looped.data_source, "channel")
         IN  IF looped.err # "none" THEN looped
             ELSE [looped EXCEPT !.short_channels =
                      SelectSeq(@, LAMBDA c : c \notin deleted_fids)]

GetPoint_2D(geom) == <<geom[1][1], geom[1][2]>>

\* line.AddPoint(x, y) adds the point with z = 0
AddPoint(line, xy) == Append(line, <<xy[1], xy[2], 0>>)

\* a faulty variant: the line is drawn to the pump's own location, not to the
\* end node
update_pump_map_geometries_to_pump(self) ==
    LET ds == self.data_source
        pump_geom_dict == [p \in Fids(ds, "pump") |-> ds.feature[<<"pump", p>>].geom]
        updated(feature) ==
            IF /\ feature.pump_id \in DOMAIN pump_geom_dict
               /\ feature.ref.connection_node_id_end \in DOMAIN ds.connection_node
            THEN [feature EXCEPT !.geom =
                    AddPoint(AddPoint(<<>>, GetPoint_2D(pump_geom_dict[feature.pump_id])),
                             GetPoint_2D(pump_geom_dict[feature.pump_id]))]
            ELSE feature
    IN  [self EXCEPT !.data_source.feature =
            [k \in DOMAIN @ |-> IF k[1] = "pump_map" THEN updated(@[k]) ELSE @[k]]]

update_pump_map_geometries(self) ==
    LET ds == self.data_source
        pump_geom_dict == [p \in Fids(ds, "pump") |-> ds.feature[<<"pump", p>>].geom]
        connection_node_geom_dict == ds.connection_node
        updated(feature) ==
            IF /\ feature.pump_id \in DOMAIN pump_geom_dict
               /\ feature.ref.connection_node_id_end \in DOMAIN connection_node_geom_dict
            THEN [feature EXCEPT !.geom =
                    AddPoint(AddPoint(<<>>, GetPoint_2D(pump_geom_dict[feature.pump_id])),
                             GetPoint_2D(connection_node_geom_dict[
                                 feature.ref.connection_node_id_end]))]
            ELSE feature
    IN  [self EXCEPT !.data_source.feature =
            [k \in DOMAIN @ |-> IF k[1] = "pump_map" THEN updated(@[k]) ELSE @[k]]]

\* "channel.GetFID() in channel_ids" in run: an int FID equals no string
in_channel_ids(fid, channel_ids) ==
    \E i \in DOMAIN channel_ids : channel_ids[i] = <<"int", fid>>

\* ------------------------------------------------------------------ state
\* data_source .. replaced_connection_nodes: the ShortChannelDeleter;
\* pc, i, channel_ids, err: where run(channel_ids) is and how it ended;
\* initial: the store __init__ opened; last: the latest delete_channel call
VARIABLES data_source, short_channels, handles, indices, reference_dict,
          replaced_connection_nodes, pc, i, channel_ids, err, initial, last,
          first_run, calls

vars == <<data_source, short_channels, handles, indices, reference_dict,
          replaced_connection_nodes, pc, i, channel_ids, err, initial, last,
          first_run, calls>>

Self == [data_source |-> data_source, short_channels |-> short_channels,
         handles |-> handles, indices |-> indices,
         reference_dict |-> reference_dict,
         replaced_connection_nodes |-> replaced_connection_nodes,
         err |-> "none"]

Becomes(self) ==
    /\ data_source' = self.data_source
    /\ short_channels' = self.short_channels
    /\ handles' = self.handles
    /\ indices' = self.indices
    /\ reference_dict' = self.reference_dict
    /\ replaced_connection_nodes' = self.replaced_connection_nodes
    /\ err' = self.err

NoCall == [outcome |-> "none"]

\* the state after ShortChannelDeleter(gpkg, threshold=Threshold)
Constructed(gpkg) ==
    LET self == __init__(gpkg, Threshold)
    IN  /\ data_source = self.data_source
        /\ short_channels = self.short_channels
        /\ handles = self.handles
        /\ indices = self.indices
        /\ reference_dict = self.reference_dict
        /\ replaced_connection_nodes = self.replaced_connection_nodes
        /\ err = "none"
        /\ pc = "constructed"
        /\ i = 1
        /\ channel_ids = <<>>
        /\ initial = gpkg
        /\ last = NoCall
        /\ first_run = <<>>
        /\ calls = 0

Init == \E gpkg \in InputStores : Constructed(gpkg)

\* run(), first statement: phase 1
BeginRun(ids) ==
    /\ pc = "constructed"
    /\ LET self == delete_zero_length_channels(Self, ids)
       IN  /\ Becomes(self)
           /\ pc' = IF self.err = "none" THEN "phase2" ELSE "error"
    /\ channel_ids' = ids
    /\ i' = 1
    /\ UNCHANGED <<initial, last, first_run, calls>>

Run == BeginRun(<<>>)

\* the explicit subsets: one identifier, as a string or as an int; the
\* identifier MaxChannel + 1 names no channel
SubsetArgs == {<<<<type, c>>>> : type \in {"str", "int"}, c \in {1, MaxChannel + 1}}

RunSubset == \E ids \in SubsetArgs : BeginRun(ids)

\* positions of self.short_channels, from i on, that run() passes to delete_channel
Selected == {j \in i..Len(short_channels) :
               channel_ids = <<>> \/ in_channel_ids(short_channels[j], channel_ids)}

\* one iteration of the loop of run() that calls delete_channel
DeleteChannel ==
    /\ pc = "phase2"
    /\ Selected # {}
    /\ LET j == Min(Selected)
           channel_id == short_channels[j]
       IN  \E referencing_features \in referencing_feature_lists(Self, channel_id) :
               LET self == delete_channel(Self, channel_id, referencing_features)
                   declined == channel_id \in DOMAIN reference_dict
                                   /\ guard_declines(Self, channel_id)
               IN  /\ Becomes(self)
                   /\ pc' = IF self.err = "none" THEN "phase2"
                            ELSE IF self.err = "hang" THEN "hang" ELSE "error"
                   /\ i' = j + 1
                   /\ last' = IF channel_id \notin DOMAIN reference_dict
                              THEN [outcome |-> "usage_error", channel |-> channel_id,
                                    before |-> Self]
                              ELSE IF declined
                              THEN [outcome |-> "guard", channel |-> channel_id,
                                    before |-> Self]
                              ELSE [outcome |-> IF self.err = "none" THEN "merged"
                                                ELSE "raised",
                                    channel |-> channel_id,
                                    before |-> Self,
                                    delete_id |-> connection_node_id_to_delete(Self, channel_id),
                                    replacement |-> connection_node_id_replacement(Self, channel_id)]
    /\ UNCHANGED <<channel_ids, initial, first_run, calls>>

\* run(), last statement: phase 3
UpdatePumpMapGeometries ==
    /\ pc = "phase2"
    /\ Selected = {}
    /\ Becomes(update_pump_map_geometries(Self))
    /\ pc' = "done"
    /\ UNCHANGED <<i, channel_ids, initial, last, first_run, calls>>

\* a second ShortChannelDeleter, same threshold, on the store the first run left
RunAgain ==
    /\ pc = "done"
    /\ first_run = <<>>
    /\ channel_ids = <<>>
    /\ LET self == __init__(data_source, Threshold)
       IN  Becomes(self)
    /\ pc' = "constructed"
    /\ i' = 1
    /\ initial' = data_source
    /\ last' = NoCall
    /\ first_run' = <<data_source>>
    /\ UNCHANGED <<channel_ids, calls>>

Next == Run \/ DeleteChannel \/ UpdatePumpMapGeometries

Spec == Init /\ [][Next]_vars

NextSubset == Run \/ RunSubset \/ DeleteChannel \/ UpdatePumpMapGeometries

SpecSubset == Init /\ [][NextSubset]_vars

NextTwice == Run \/ DeleteChannel \/ UpdatePumpMapGeometries \/ RunAgain

SpecTwice == Init /\ [][NextTwice]_vars

\* ------------------------------------------- calls of the public operations
\* how many calls are made on one ShortChannelDeleter
MaxCalls == 3

\* the stores of channels only, all of them shorter than Threshold
ChannelsOnly(gpkg) ==
    \A key \in DOMAIN gpkg.feature :
        key[1] = "channel" /\ Length(gpkg.feature[key].geom) < Threshold

InitCalls == Init /\ ChannelsOnly(initial)

\* a call that raises ends the sequence of calls
CanCall == pc = "constructed" /\ calls < MaxCalls

AfterCall(self) ==
    IF self.err = "none" THEN "constructed"
    ELSE IF self.err = "hang" THEN "hang" ELSE "error"

\* scd.delete_zero_length_channels()
CallDeleteZeroLengthChannels ==
    /\ CanCall
    /\ LET self == delete_zero_length_channels(Self, <<>>)
       IN  Becomes(self) /\ pc' = AfterCall(self)
    /\ last' = [outcome |-> "zero_length", before |-> Self]
    /\ calls' = calls + 1
    /\ UNCHANGED <<i, channel_ids, initial, first_run>>

\* scd.delete_channel(channel) for a channel of scd.short_channels
CallDeleteChannel ==
    /\ CanCall
    /\ \E j \in DOMAIN short_channels :
        LET channel_id == short_channels[j]
        IN  \E referencing_features \in referencing_feature_lists(Self, channel_id) :
                LET self == delete_channel(Self, channel_id, referencing_features)
                IN  /\ Becomes(self)
                    /\ pc' = AfterCall(self)
                    /\ last' = [outcome |-> "delete_channel", channel |-> channel_id,
                                before |-> Self]
    /\ calls' = calls + 1
    /\ UNCHANGED <<i, channel_ids, initial, first_run>>

\* scd.replace_connection_node(scd.data_source, layer_name, feature_fid,
\* delete_id, replacement_id) for a feature of the store, a node it references
\* and a node of the store
CallReplaceConnectionNode ==
    /\ CanCall
    /\ \E key \in DOMAIN data_source.feature :
       \E delete_id \in Range(data_source.feature[key].ref) :
       \E replacement_id \in DOMAIN data_source.connection_node :
            LET self == replace_connection_node(Self, key[1], key[2],
                                                delete_id, replacement_id)
            IN  /\ Becomes(self)
                /\ pc' = AfterCall(self)
                /\ last' = [outcome |-> "replace_connection_node",
                            layer_name |-> key[1], feature_fid |-> key[2],
                            delete_id |-> delete_id,
                            replacement_id |-> replacement_id,
                            before |-> Self]
    /\ calls' = calls + 1
    /\ UNCHANGED <<i, channel_ids, initial, first_run>>

\* scd.update_pump_map_geometries()
CallUpdatePumpMapGeometries ==
    /\ CanCall
    /\ LET self == update_pump_map_geometries(Self)
       IN  Becomes(self) /\ pc' = AfterCall(self)
    /\ last' = [outcome |-> "update_pump_map_geometries", before |-> Self]
    /\ calls' = calls + 1
    /\ UNCHANGED <<i, channel_ids, initial, first_run>>

NextCalls ==
    \/ CallDeleteZeroLengthChannels
    \/ CallDeleteChannel
    \/ CallReplaceConnectionNode
    \/ CallUpdatePumpMapGeometries

SpecCalls == InitCalls /\ [][NextCalls]_vars

\* ------------------------------------------------ one repointing request
\* the stores whose channels are all shorter than Threshold
ShortOnly(gpkg) ==
    \A c \in Fids(gpkg, "channel") :
        Length(gpkg.feature[<<"channel", c>>].geom) < Threshold

InitRepoint == Init /\ ShortOnly(initial)

\* scd.replace_connection_node(scd.data_source, layer_name, feature_fid,
\* delete_id, replacement_id) for a feature of the store and any two nodes of
\* the store, whether or not the feature references delete_id
Repoint ==
    /\ pc = "constructed"
    /\ calls = 0
    /\ \E key \in DOMAIN data_source.feature :
       \E delete_id \in DOMAIN data_source.connection_node :
       \E replacement_id \in DOMAIN data_source.connection_node :
            LET self == replace_connection_node(Self, key[1], key[2],
                                                delete_id, replacement_id)
            IN  /\ Becomes(self)
                /\ pc' = AfterCall(self)
                /\ last' = [outcome |-> "replace_connection_node",
                            layer_name |-> key[1], feature_fid |-> key[2],
                            delete_id |-> delete_id,
                            replacement_id |-> replacement_id,
                            before |-> Self]
    /\ calls' = 1
    /\ UNCHANGED <<i, channel_ids, initial, first_run>>

SpecRepoint == InitRepoint /\ [][Repoint]_vars

\* ------------------------------------------------- stores with a pump_map
\* the stores of GeneralStores that have a pump_map and short channels only,
\* the same stores without the pump that the pump_map names, and the same
\* stores with a pump_map line of three vertices
WithPumpMap ==
    {gpkg \in GeneralStores :
        <<"pump_map", 1>> \in DOMAIN gpkg.feature /\ ShortOnly(gpkg)}

WithoutPump(gpkg) == [gpkg EXCEPT !.feature = Drop(@, {<<"pump", 1>>})]

\* the same store with a far vertex between the two ends of the pump_map line
WithDetour(gpkg) ==
    [gpkg EXCEPT !.feature =
        [key \in DOMAIN @ |->
            IF key[1] = "pump_map"
            THEN [@[key] EXCEPT !.geom =
                    <<@[1], <<Threshold + Spacing * MaxNode, 0>>, @[Len(@)]>>]
            ELSE @[key]]]

PumpMapStores ==
    UNION {{gpkg, WithoutPump(gpkg), WithDetour(gpkg)} : gpkg \in WithPumpMap}

InitPumpMaps == \E gpkg \in PumpMapStores : Constructed(gpkg)

SpecPumpMaps == InitPumpMaps /\ [][Next]_vars

\* ---------------------------------------------------------------- claims
\* the features of ds that hold the id of a node that is not in the store
Dangling(ds) ==
    {k \in DOMAIN ds.feature :
        \E fld \in DOMAIN ds.feature[k].ref :
            ds.feature[k].ref[fld] \notin DOMAIN ds.connection_node}

\* C1 (P1, no dangling references): once run() has completed, every
\* node-reference field of every remaining feature of the tracked layers
\* holds the id of a connection node that still exists.
C1_NoDanglingReferences == pc = "done" => Dangling(data_source) = {}

\* the index a scan of the store gives
ScannedIndices(ds) == [layer_name \in Range(ALL_OBJECTS) |-> _create_index(ds, layer_name)]

AfterAPhase ==
    \/ pc = "constructed"
    \/ pc = "phase2" /\ i = 1
    \/ pc = "phase2" /\ Selected = {}
    \/ pc = "done"

\* C2 (P2, index fidelity): after construction and after each phase of
\* run(), self.indices holds, for every node id, exactly the (field, feature)
\* entries a scan of the tracked layers of the store gives.
C2_IndexFidelity == AfterAPhase => indices = ScannedIndices(data_source)

\* C3 (P3, replacement chain termination): for every key of
\* _replaced_connection_nodes the walk of replaced_connection_node_id
\* terminates, at a node that exists in the store; no entry maps a node to
\* itself.
C3_ChainTerminatesAtLiveNode ==
    \A k \in DOMAIN replaced_connection_nodes :
        /\ replaced_connection_nodes[k] # k
        /\ replaced_connection_node_id(Self, k).terminates
        /\ replaced_connection_node_id(Self, k).id \in DOMAIN data_source.connection_node

\* the network graph: the connection nodes, joined by the features of the
\* network layers that have a start and an end node
Edges(ds) ==
    {<<ds.feature[k].ref.connection_node_id_start, ds.feature[k].ref.connection_node_id_end>> :
        k \in {x \in DOMAIN ds.feature :
                 /\ x[1] \in Range(NETWORK_OBJECTS)
                 /\ "connection_node_id_start" \in DOMAIN ds.feature[x].ref}}

RECURSIVE Reach(_, _)
Reach(ds, S) ==
    LET T == S \cup {n \in DOMAIN ds.connection_node :
                       \E e \in Edges(ds) : \/ e[1] \in S /\ e[2] = n
                                            \/ e[2] \in S /\ e[1] = n}
    IN  IF T = S THEN S ELSE Reach(ds, T)

Components(ds) == {Reach(ds, {n}) : n \in DOMAIN ds.connection_node}

\* C4 (P4, connectivity preserved): the network graph has as many connected
\* components after run() as before it.
C4_ConnectivityPreserved ==
    pc = "done" => Cardinality(Components(data_source)) = Cardinality(Components(initial))

\* C5 (P5, idempotence): a second ShortChannelDeleter with the same
\* threshold, run on the store a completed run() left, deletes no channel, node
\* or cross-section location and leaves the store identical.
C5_Idempotent == first_run # <<>> => data_source = first_run[1]

\* the channel the latest delete_channel call processed, as the store held it
\* when the call began
E_before == last.before.data_source.feature[<<"channel", last.channel>>]

Called ==
    /\ last.outcome # "none"
    /\ <<"channel", last.channel>> \in DOMAIN last.before.data_source.feature

\* the features other than channel c that reference both node a and node b
CommonReferrers(ds, c, a, b) ==
    {k \in DOMAIN ds.feature \ {<<"channel", c>>} :
        /\ \E fld \in DOMAIN ds.feature[k].ref : ds.feature[k].ref[fld] = a
        /\ \E fld \in DOMAIN ds.feature[k].ref : ds.feature[k].ref[fld] = b}

HasCommonReferrer ==
    /\ Called
    /\ E_before.ref.connection_node_id_start # E_before.ref.connection_node_id_end
    /\ CommonReferrers(last.before.data_source, last.channel,
                       E_before.ref.connection_node_id_start,
                       E_before.ref.connection_node_id_end) # {}

\* C6 (connectivity guard): when delete_channel processes a short channel E
\* and, in the store at that moment, a feature other than E references both of
\* E's endpoint nodes, E is not deleted and neither endpoint node is deleted;
\* also when the common referrer came to reference both endpoints through
\* earlier merges of the same pass.
C6_GuardAborts ==
    HasCommonReferrer =>
        /\ <<"channel", last.channel>> \in DOMAIN data_source.feature
        /\ E_before.ref.connection_node_id_start \in DOMAIN data_source.connection_node
        /\ E_before.ref.connection_node_id_end \in DOMAIN data_source.connection_node

\* the network-layer references to node n in the store, channel c excluded
Degree(ds, c, n) ==
    Cardinality({t \in {<<k, fld>> : k \in DOMAIN ds.feature \ {<<"channel", c>>},
                                      fld \in possible_connection_node_field_names} :
                   /\ t[1][1] \in Range(NETWORK_OBJECTS)
                   /\ t[2] \in DOMAIN ds.feature[t[1]].ref
                   /\ ds.feature[t[1]].ref[t[2]] = n})

Merged == Called /\ last.outcome = "merged"

\* C7 (tie-break): in every merge delete_channel performs, the endpoint with
\* the strictly larger reference degree is kept and the other endpoint is
\* deleted; with equal degrees the start endpoint is deleted and the end
\* endpoint kept.
C7_TieBreak ==
    (Merged /\ E_before.ref.connection_node_id_start # E_before.ref.connection_node_id_end) =>
        LET start == E_before.ref.connection_node_id_start
            end == E_before.ref.connection_node_id_end
            ds == last.before.data_source
            keep_start == Degree(ds, last.channel, start) > Degree(ds, last.channel, end)
            kept == IF keep_start THEN start ELSE end
            deleted == IF keep_start THEN end ELSE start
        IN  /\ kept \in DOMAIN data_source.connection_node
            /\ deleted \notin DOMAIN data_source.connection_node

\* the features, with the field, that held node n when the latest
\* delete_channel call began, the processed channel excluded
Held(n) ==
    {t \in {<<k, fld>> : k \in DOMAIN last.before.data_source.feature
                               \ {<<"channel", last.channel>>},
                         fld \in possible_connection_node_field_names} :
        /\ t[2] \in DOMAIN last.before.data_source.feature[t[1]].ref
        /\ last.before.data_source.feature[t[1]].ref[t[2]] = n}

EndpointVertex(geom, fld) ==
    IF fld = "connection_node_id_end" THEN geom[Len(geom)] ELSE geom[1]

SamePlace(vertex, point) == vertex[1] = point[1] /\ vertex[2] = point[2]

\* C8 (repointing, Scenario D): when a merge deletes node D in favour of node
\* S, every feature of every tracked layer that held D in a node-reference
\* field holds S in that field afterwards, and the matching endpoint vertex of
\* its geometry (first vertex for a start or single reference, last vertex for
\* an end reference) is at S's stored location.
C8_Repointed ==
    (Merged /\ pc = "phase2") =>
        \A t \in Held(last.delete_id) :
            /\ t[1] \in DOMAIN data_source.feature
            /\ data_source.feature[t[1]].ref[t[2]] = last.replacement.id
            /\ last.replacement.id \in DOMAIN last.before.data_source.connection_node
            /\ SamePlace(EndpointVertex(data_source.feature[t[1]].geom, t[2]),
                         last.before.data_source.connection_node[last.replacement.id][1])

ZeroLength(ds) ==
    {c \in Fids(ds, "channel") :
        ds.feature[<<"channel", c>>].ref.connection_node_id_start
            = ds.feature[<<"channel", c>>].ref.connection_node_id_end}

AfterPhase1 == pc = "phase2" /\ i = 1 /\ channel_ids = <<>>

\* C9 (phase 1, Scenario C): after delete_zero_length_channels() with no
\* subset no channel with start = end remains, the cross-section locations of
\* the removed channels are deleted, the channel index has no entry for a
\* removed channel, no connection node is deleted and no other feature is
\* modified.
C9_ZeroLengthChannelsDeleted ==
    AfterPhase1 =>
        LET removed == ZeroLength(initial)
        IN  /\ ZeroLength(data_source) = {}
            /\ data_source.cross_section_location
                   = {x \in initial.cross_section_location : x.channel_id \notin removed}
            /\ \A n \in DOMAIN indices["channel"] :
                   \A e \in indices["channel"][n] : e[2] \notin removed
            /\ data_source.connection_node = initial.connection_node
            /\ data_source.feature = Drop(initial.feature, {"channel"} \X removed)

C9_Witness ==
    /\ AfterPhase1
    /\ \E c \in ZeroLength(initial) :
           \E k \in DOMAIN data_source.feature :
               \E fld \in DOMAIN data_source.feature[k].ref :
                   data_source.feature[k].ref[fld]
                       = initial.feature[<<"channel", c>>].ref.connection_node_id_start

\* the channels run(channel_ids) can act on: the short and the zero-length
\* channels of the store the ShortChannelDeleter was constructed on
Eligible(ds) ==
    ZeroLength(ds) \cup {c \in Fids(ds, "channel") :
                           Length(ds.feature[<<"channel", c>>].geom) < Threshold}

\* C10 (run with a subset): run(channel_ids) given an identifier that is not a
\* short or zero-length channel of the store does not complete silently; it
\* ends in an error.
C10_IneligibleIdIsAnError ==
    (\E k \in DOMAIN channel_ids : channel_ids[k][2] \notin Eligible(initial)) => pc # "done"

\* C13 (edge invariant start # end): after run() completes, every channel
\* remaining in the store has a start node different from its end node.
C13_NoZeroLengthChannelRemains ==
    (pc = "done" /\ channel_ids = <<>>) => ZeroLength(data_source) = {}

\* the channels of the store the deleter was constructed on that are at
\* least Threshold long and join two different nodes
LongAndOpen(ds) ==
    {c \in Fids(ds, "channel") :
        /\ Length(ds.feature[<<"channel", c>>].geom) >= Threshold
        /\ c \notin ZeroLength(ds)}

\* C14 (threshold contract): the merge candidates are fixed at construction
\* from the original lengths; a channel whose original length is at least the
\* threshold and whose endpoints differed when phase 1 examined it is never
\* deleted, whatever merges of the pass move its endpoints.
C14_LongChannelsSurvive ==
    /\ \A j \in DOMAIN short_channels :
           Length(initial.feature[<<"channel", short_channels[j]>>].geom) < Threshold
    /\ \A c \in LongAndOpen(initial) : <<"channel", c>> \in DOMAIN data_source.feature

C14_Witness ==
    /\ pc = "done"
    /\ \E c \in LongAndOpen(initial) :
           /\ <<"channel", c>> \in DOMAIN data_source.feature
           /\ data_source.feature[<<"channel", c>>].ref # initial.feature[<<"channel", c>>].ref

\* the network-layer references to node n in the store, as (layer, field,
\* fid) tuples, channel c excluded
NetworkReferrers(ds, c, n) ==
    {<<t[1][1], t[2], t[1][2]>> :
        t \in {x \in {<<k, fld>> : k \in DOMAIN ds.feature \ {<<"channel", c>>},
                                   fld \in possible_connection_node_field_names} :
                 /\ x[1][1] \in Range(NETWORK_OBJECTS)
                 /\ x[2] \in DOMAIN ds.feature[x[1]].ref
                 /\ ds.feature[x[1]].ref[x[2]] = n}}

Processed == Called /\ last.outcome \in {"guard", "merged", "raised"}

\* C15 (current degrees): when delete_channel processes channel E, the start
\* and end referrer lists of reference_dict[E] are the network-layer features
\* that reference E's current start and end node in the store, E excluded.
C15_CurrentDegrees ==
    Processed =>
        /\ last.before.reference_dict[last.channel].start
               = NetworkReferrers(last.before.data_source, last.channel,
                                  E_before.ref.connection_node_id_start)
        /\ last.before.reference_dict[last.channel].end
               = NetworkReferrers(last.before.data_source, last.channel,
                                  E_before.ref.connection_node_id_end)

\* C18 (no empty buckets): no layer index maps a node id to an empty set.
C18_NoEmptyBuckets ==
    \A layer_name \in DOMAIN indices :
        \A n \in DOMAIN indices[layer_name] : indices[layer_name][n] # {}

C18_Witness ==
    /\ Merged
    /\ pc = "phase2"
    /\ \E layer_name \in DOMAIN indices :
           /\ last.delete_id \in DOMAIN last.before.indices[layer_name]
           /\ last.delete_id \notin DOMAIN indices[layer_name]
           /\ get_referencing_features(last.before, last.channel, last.delete_id,
                                       <<layer_name>>) # {}

\* C19 (index update on feature deletion): no bucket of the channel index
\* holds an entry for a channel that is no longer in the store.
C19_NoEntryForDeletedChannel ==
    \A n \in DOMAIN indices["channel"] :
        \A e \in indices["channel"][n] : e[2] \in Fids(data_source, "channel")

\* the latest call asked delete_channel for a channel that an earlier
\* delete_channel call had merged and deleted: it is still in
\* self.short_channels (phase 1 removes what it deletes from that list) and
\* no longer in the store
Repeated ==
    /\ last.outcome = "delete_channel"
    /\ <<"channel", last.channel>> \notin DOMAIN last.before.data_source.feature

\* C11 (already-compacted edge): a delete_channel request for a channel that
\* delete_channel merged and deleted earlier, whatever merges came in between,
\* raises RuntimeError and leaves the store, the indices and the replacement
\* chain as they were.
C11_DeletedChannelIsAUsageError ==
    Repeated =>
        /\ err = "RuntimeError"
        /\ data_source = last.before.data_source
        /\ indices = last.before.indices
        /\ replaced_connection_nodes = last.before.replaced_connection_nodes

\* the nodes of the store given to the constructor that the store has lost
DeletedNodes == DOMAIN initial.connection_node \ DOMAIN data_source.connection_node

\* the features of the store given to the constructor that referenced none
\* of the deleted nodes
Bystanders ==
    {key \in DOMAIN initial.feature :
        \A fld \in DOMAIN initial.feature[key].ref :
            initial.feature[key].ref[fld] \notin DeletedNodes}

\* C12 (subset restriction): when run(channel_ids = S) with a non-empty S has
\* completed, every channel deleted from the store has its id in S, and
\* every other feature that referenced no deleted node is in the store with
\* the fields and the geometry it had at construction.
C12_SubsetRestriction ==
    (pc = "done" /\ channel_ids # <<>>) =>
        /\ \A c \in Fids(initial, "channel") \ Fids(data_source, "channel") :
                \E k \in DOMAIN channel_ids : channel_ids[k][2] = c
        /\ \A key \in Bystanders :
                \/ key[1] = "channel" /\ key \notin DOMAIN data_source.feature
                \/ /\ key \in DOMAIN data_source.feature
                   /\ data_source.feature[key] = initial.feature[key]

\* the latest delete_channel call went past its guard and its chain walk
\* returned
PastGuard == Called /\ last.outcome \in {"merged", "raised"} /\ err # "hang"

\* the endpoint the call keeps, as the channel's handle records it
KeptEndpoint ==
    LET references == last.before.reference_dict[last.channel]
        channel == last.before.handles[<<"channel", last.channel>>]
    IN  IF Cardinality(references.start) > Cardinality(references.end)
        THEN channel.connection_node_id_start
        ELSE channel.connection_node_id_end

\* the fields of features that the call gave another value
Repointed ==
    {<<key, fld>> \in (DOMAIN data_source.feature) \X possible_connection_node_field_names :
        /\ fld \in DOMAIN data_source.feature[key].ref
        /\ data_source.feature[key].ref[fld] # last.before.data_source.feature[key].ref[fld]}

\* C16 (survivor resolution): in every merge the replacement identifier is
\* the end of the replacement chain walked from the kept endpoint, it is the
\* id of a connection node in the store when the merge begins, and it is the
\* value written to the repointed referrers and recorded in the chain.
C16_SurvivorResolution ==
    /\ PastGuard =>
        LET root == walk_chain(last.before.replaced_connection_nodes, KeptEndpoint, {})
        IN  /\ root.terminates
            /\ last.replacement.id = root.id
            /\ root.id \in DOMAIN last.before.data_source.connection_node
    /\ Merged =>
        /\ replaced_connection_nodes[last.delete_id] = last.replacement.id
        /\ \A t \in Repointed :
                data_source.feature[t[1]].ref[t[2]] = last.replacement.id

\* a merge whose kept endpoint, as recorded on the handle, had been merged
\* away earlier, and that repointed a referrer
C16_Witness ==
    /\ Merged
    /\ KeptEndpoint \in DOMAIN last.before.replaced_connection_nodes
    /\ Repointed # {}

\* the latest call was a replace_connection_node call that returned, for a
\* feature whose entry was in the bucket of delete_id
Reassigned ==
    /\ last.outcome = "replace_connection_node"
    /\ err = "none"
    /\ last.delete_id \in DOMAIN last.before.indices[last.layer_name]
    /\ \E e \in last.before.indices[last.layer_name][last.delete_id] :
            e[2] = last.feature_fid

\* the (role, feature) entry that the call moves
ReassignedEntry ==
    LET feature == last.before.data_source.feature[<<last.layer_name, last.feature_fid>>]
    IN  <<field_to_be_updated(last.layer_name, feature, last.delete_id)[1],
          last.feature_fid>>

\* the bucket of node n in an index, empty when the index has no such bucket
Bucket(index, n) == IF n \in DOMAIN index THEN index[n] ELSE {}

\* C17 (entry-specific index update): a replace_connection_node call that
\* repoints role r of feature F from node A to node B takes the entry (r, F)
\* out of A's bucket of the layer's index and puts it into B's bucket; every
\* other entry of every bucket, and every other layer's index, is as before.
C17_EntrySpecificUpdate ==
    Reassigned =>
        LET before == last.before.indices
            A == last.delete_id
            B == last.replacement_id
        IN  \A layer_name \in DOMAIN indices :
            \A n \in NodeIds \cup DOMAIN indices[layer_name] \cup DOMAIN before[layer_name] :
                Bucket(indices[layer_name], n) =
                    IF layer_name # last.layer_name THEN Bucket(before[layer_name], n)
                    ELSE IF n = B THEN Bucket(before[layer_name], n) \cup {ReassignedEntry}
                    ELSE IF n = A THEN Bucket(before[layer_name], n) \ {ReassignedEntry}
                    ELSE Bucket(before[layer_name], n)

\* C20 (absent node lookup): no call of a public operation, in any order of
\* calls, ends with KeyError: an index lookup for a node id without a bucket
\* gives the empty result.
C20_AbsentNodeLookup == err # "KeyError"

\* the latest call asked replace_connection_node to repoint a feature none
\* of whose node-reference fields held delete_id
RoleMismatch ==
    /\ last.outcome = "replace_connection_node"
    /\ LET ref == last.before.data_source.feature[<<last.layer_name, last.feature_fid>>].ref
       IN  \A fld \in DOMAIN ref : ref[fld] # last.delete_id

\* C21 (integrity error on role mismatch): a replace_connection_node request
\* for a feature none of whose node-reference fields holds the node being
\* deleted ends with an error, and the store (every field and geometry) and
\* the indices are as before the request.
C21_RoleMismatchIsAnError ==
    RoleMismatch =>
        /\ err # "none"
        /\ data_source = last.before.data_source
        /\ indices = last.before.indices

\* a mismatching request for a feature with start and end fields, and one for
\* a feature with the single field
C21_Witness ==
    /\ RoleMismatch
    /\ err = "RuntimeError"
    /\ last.layer_name \in {"channel", "culvert"}

C21_WitnessSingle ==
    /\ RoleMismatch
    /\ err = "RuntimeError"
    /\ last.layer_name \in {"pump", "surface_map"}

\* run() stopped because an exception came out of delete_channel
StoppedInDeleteChannel == pc = "error" /\ Called /\ last.outcome = "raised"

\* C22 (per-edge atomicity): when run() stops because an error comes out of
\* delete_channel, the edge being processed is untouched: the store, the
\* indices and the replacement chain are as they were when the call began.
C22_PerEdgeAtomicity ==
    StoppedInDeleteChannel =>
        /\ data_source = last.before.data_source
        /\ indices = last.before.indices
        /\ replaced_connection_nodes = last.before.replaced_connection_nodes

\* the latest delete_channel call of run() was declined by the guard, and
\* nothing has run since
Skipped == Called /\ last.outcome = "guard" /\ pc # "done"

\* C23 (guard skip is a no-op): right after a delete_channel call that the
\* connectivity guard declined, the store, every index, the replacement
\* chain and self.reference_dict are as they were before the call, no error
\* is raised, and run() is still in its loop over the short channels.
C23_GuardSkipIsNoOp ==
    Skipped =>
        /\ pc = "phase2"
        /\ err = "none"
        /\ data_source = last.before.data_source
        /\ indices = last.before.indices
        /\ replaced_connection_nodes = last.before.replaced_connection_nodes
        /\ reference_dict = last.before.reference_dict
        /\ short_channels = last.before.short_channels

\* a declined merge after which run() has a further short channel to process
C23_Witness == Skipped /\ Selected # {}

\* the pump_map features of the store whose pump and end node both exist
Drawable ==
    {key \in DOMAIN data_source.feature :
        /\ key[1] = "pump_map"
        /\ <<"pump", data_source.feature[key].pump_id>> \in DOMAIN data_source.feature
        /\ data_source.feature[key].ref.connection_node_id_end
                \in DOMAIN data_source.connection_node}

\* C24 (phase 3): when run() has completed, no short channel is left for
\* delete_channel, every pump_map whose pump and end node exist has a
\* two-point line from the location of its pump to the location of the node
\* in its connection_node_id_end field, and every other pump_map has the
\* geometry it had in the store given to the constructor.
C24_PumpMapGeometries ==
    pc = "done" =>
        /\ Selected = {}
        /\ \A key \in DOMAIN data_source.feature :
            key[1] = "pump_map" =>
                LET feature == data_source.feature[key]
                IN  IF key \in Drawable
                    THEN /\ Len(feature.geom) = 2
                         /\ SamePlace(feature.geom[1],
                                data_source.feature[<<"pump", feature.pump_id>>].geom[1])
                         /\ SamePlace(feature.geom[2],
                                data_source.connection_node[
                                    feature.ref.connection_node_id_end][1])
                    ELSE feature.geom = initial.feature[key].geom

\* a completed run with merges, and a pump_map drawn between two different
\* places
C24_Witness ==
    /\ pc = "done"
    /\ replaced_connection_nodes # EmptyDict
    /\ \E key \in Drawable :
            ~SamePlace(data_source.feature[key].geom[1], data_source.feature[key].geom[2])

\* a completed run with a pump_map that names no pump
C24_WitnessNoPump ==
    /\ pc = "done"
    /\ \E key \in DOMAIN data_source.feature : key[1] = "pump_map" /\ key \notin Drawable

\* C25 (zero-length edges never reach the merge logic): no delete_channel
\* call of run() goes past the guard for a channel whose start and end node
\* in the store are the same node when the call begins, and in no merge are
\* the node to delete and the resolved surviving node the same node.
C25_NoZeroLengthMerge ==
    (Called /\ last.outcome \in {"merged", "raised"}) =>
        /\ E_before.ref.connection_node_id_start # E_before.ref.connection_node_id_end
        /\ last.delete_id # last.replacement.id

\* C26 (merge postcondition and node lifecycle): after a delete_channel call
\* that went past the guard and returned, the processed channel and the
\* cross_section_locations with its id are gone, the node chosen for
\* deletion is gone, and the replacement chain maps that node to the
\* surviving node, a node of the store; throughout the run the nodes the
\* store has lost are the keys of the replacement chain.
C26_MergePostcondition ==
    /\ Merged =>
        /\ <<"channel", last.channel>> \notin DOMAIN data_source.feature
        /\ \A x \in data_source.cross_section_location : x.channel_id # last.channel
        /\ last.delete_id \notin DOMAIN data_source.connection_node
        /\ replaced_connection_nodes[last.delete_id] = last.replacement.id
        /\ last.replacement.id \in DOMAIN data_source.connection_node
    /\ DeletedNodes = DOMAIN replaced_connection_nodes

\* the ShortChannelDeleters that the loop of run() can end with, from position
\* j of self.short_channels on, over every order in which the buckets can be
\* iterated; an exception ends the loop
RECURSIVE RunOutcomes(_, _)
RunOutcomes(self, j) ==
    IF self.err # "none" \/ j > Len(self.short_channels) THEN {self}
    ELSE UNION {RunOutcomes(delete_channel(self, self.short_channels[j], order), j + 1) :
                    order \in referencing_feature_lists(self, self.short_channels[j])}

\* what the claim compares: how the run ended, the nodes and features that
\* survive, and every reference field
FinalStore(self) ==
    [err |-> self.err,
     connection_node |-> DOMAIN self.data_source.connection_node,
     ref |-> [key \in DOMAIN self.data_source.feature |->
                 self.data_source.feature[key].ref]]

\* C27 (determinism): for a store, a threshold and the processing order of
\* self.short_channels, the store that run() ends with (surviving nodes and
\* features, every reference field) is the same for every iteration order of
\* the index buckets.
C27_OrderIndependent ==
    (AfterPhase1 /\ last = NoCall) =>
        Cardinality({FinalStore(self) : self \in RunOutcomes(Self, 1)}) = 1

\* C28 (merged node is a live current endpoint): in every merge the node
\* selected for deletion is in the store when the merge begins, it is the
\* start or the end node of the processed channel as the store holds it at
\* that moment, and the replacement chain has no entry for it yet.
C28_DeletedNodeIsLiveEndpoint ==
    Merged =>
        /\ last.delete_id \in DOMAIN last.before.data_source.connection_node
        /\ last.delete_id \in {E_before.ref.connection_node_id_start,
                               E_before.ref.connection_node_id_end}
        /\ last.delete_id \notin DOMAIN last.before.replaced_connection_nodes

\* C29 (cross-section referential integrity): when run() has completed,
\* every cross_section_location of the store references a channel of the
\* store, and every cross_section_location of the store given to the
\* constructor whose channel is still in the store is in the store as it was.
C29_CrossSectionIntegrity ==
    pc = "done" =>
        /\ \A x \in data_source.cross_section_location :
                x.channel_id \in Fids(data_source, "channel")
        /\ \A x \in initial.cross_section_location :
                x.channel_id \in Fids(data_source, "channel")
                    => x \in data_source.cross_section_location

\* a completed run that deleted a channel in phase 1, merged another and
\* left a third in the store
C29_Witness ==
    /\ pc = "done"
    /\ replaced_connection_nodes # EmptyDict
    /\ ZeroLength(initial) # {}
    /\ data_source.cross_section_location # {}

\* the features of a store outside the channel layer
OtherLayers(ds) == {key \in DOMAIN ds.feature : key[1] # "channel"}

\* the vertices of a line between its first and its last
Interior(geom) == SubSeq(geom, 2, Len(geom) - 1)

\* C30 (deletion scope): when run() has completed, the store has no node,
\* channel or cross_section_location that the store given to the constructor
\* did not have, the features of every other layer are the same set, and on
\* each of them every field other than the node references and every vertex
\* other than the first and the last is as it was.
C30_DeletionScope ==
    pc = "done" =>
        /\ DOMAIN data_source.connection_node \subseteq DOMAIN initial.connection_node
        /\ Fids(data_source, "channel") \subseteq Fids(initial, "channel")
        /\ data_source.cross_section_location \subseteq initial.cross_section_location
        /\ OtherLayers(data_source) = OtherLayers(initial)
        /\ \A key \in OtherLayers(initial) :
            LET was == initial.feature[key]
                is == data_source.feature[key]
            IN  /\ DOMAIN is = DOMAIN was
                /\ \A fld \in DOMAIN was \ {"ref", "geom"} : is[fld] = was[fld]
                /\ Len(is.geom) = Len(was.geom)
                /\ Interior(is.geom) = Interior(was.geom)

====
